---- MODULE Spec2Model ----
(***************************************************************************)
(* Model of the remote tablet bootstrap client                             *)
(* (src/src/kudu/tserver/remote_bootstrap_client.cc).                      *)
(*                                                                         *)
(* One RunRemoteBootstrap call is a sequential program; every blocking     *)
(* call to a collaborator (an RPC to the remote, a call to the Env, the    *)
(* block manager, the consensus metadata store, the tablet metadata) is    *)
(* one step whose outcome is an input drawn from a small set.              *)
(***************************************************************************)
EXTENDS Integers, Sequences, FiniteSets, TLC

\* ------------------------------------------------------------------ bounds

\* max_length of one FetchData request (rpc_max_message_size - 1024), scaled.
MaxLength == 2
\* Cap on the FetchData replies of one DownloadFile call that moved the
\* offset on (the loop is unbounded); replies that leave the offset where it
\* is are not capped, they are counted modulo 2 (run.stalls).
MaxFetches == 3

\* ------------------------------------------------------------ byte strings

Bytes == {65, 66}

RECURSIVE SeqsUpTo(_, _)
SeqsUpTo(S, n) ==
  IF n = 0 THEN {<<>>}
  ELSE LET shorter == SeqsUpTo(S, n - 1)
       IN  shorter \cup {Append(s, x) : s \in {t \in shorter : Len(t) = n - 1}, x \in S}

Slice(s, from, n) == SubSeq(s, from + 1, from + n)

Min(a, b) == IF a < b THEN a ELSE b

\* ------------------------------------------------------------------ crc32c
\* A uint32_t is kept as <<high 16 bits, low 16 bits>>.

RECURSIVE XorBits(_, _, _)
XorBits(a, b, n) ==
  IF n = 0 THEN 0
  ELSE (((a % 2) + (b % 2)) % 2) + (2 * XorBits(a \div 2, b \div 2, n - 1))

Xor32(x, y) == <<XorBits(x[1], y[1], 16), XorBits(x[2], y[2], 16)>>

Shr32(x) == <<x[1] \div 2, (x[2] \div 2) + (32768 * (x[1] % 2))>>

\* 0x82F63B78, the reflected Castagnoli polynomial.
CastagnoliPoly == <<33526, 15224>>
AllOnes32 == <<65535, 65535>>

RECURSIVE CrcShift(_, _)
CrcShift(crc, k) ==
  IF k = 0 THEN crc
  ELSE CrcShift(IF (crc[2] % 2) = 1 THEN Xor32(Shr32(crc), CastagnoliPoly)
                                  ELSE Shr32(crc), k - 1)

\* The checksum register after `data`, byte by byte from `crc`.
RECURSIVE CrcUpdate(_, _)
CrcUpdate(crc, data) ==
  IF data = <<>> THEN crc
  ELSE CrcShift(Xor32(CrcUpdate(crc, SubSeq(data, 1, Len(data) - 1)),
                      <<0, data[Len(data)]>>), 8)

Crc32cCompute(data) == Xor32(CrcUpdate(AllOnes32, data), AllOnes32)

\* Every byte string a chunk of the model can carry, with its checksum.
ChunkData == SeqsUpTo(Bytes, MaxLength)
\* (@@ makes the table an explicit one, computed once.)
Crc32cTable == [d \in ChunkData |-> Crc32cCompute(d)] @@ <<>>
Crc32c(data) == Crc32cTable[data]

\* x + 1 on uint32_t.
Inc32(x) ==
  IF x[2] < 65535 THEN <<x[1], x[2] + 1>>
  ELSE IF x[1] < 65535 THEN <<x[1] + 1, 0>> ELSE <<0, 0>>

\* ------------------------------------------------------------------ Status
\* A Status is an error kind and its message, the message kept as the
\* sequence of the parts that ToString() joins with ": ".

OK == [code |-> "OK", msg |-> <<>>]
StatusOf(code, parts) == [code |-> code, msg |-> parts]
IsOk(s) == s.code = "OK"
CloneAndPrepend(s, part) == IF IsOk(s) THEN s ELSE [s EXCEPT !.msg = <<part>> \o @]
CloneAndAppend(s, parts) == IF IsOk(s) THEN s ELSE [s EXCEPT !.msg = @ \o parts]
StatusToString(s) == <<s.code>> \o s.msg
NoStatus == [code |-> "none", msg |-> <<>>]

\* ------------------------------------------------------- consensus snapshot

NoAddr == "none"
Peer(uuid, addr) ==
  [permanent_uuid |-> uuid, has_last_known_addr |-> addr # NoAddr, last_known_addr |-> addr]
CState(has, leader, peers) ==
  [has_leader_uuid |-> has, leader_uuid |-> leader, peers |-> peers]

\* The consensus snapshots RunRemoteBootstrap is called with.
CStates ==
  { CState(TRUE,  "A", <<Peer("B", "hostB"), Peer("A", "hostA")>>),
    CState(TRUE,  "A", <<Peer("A", NoAddr), Peer("A", "hostA")>>),
    CState(TRUE,  "A", <<Peer("B", "hostB")>>),
    CState(TRUE,  "A", <<>>),
    CState(TRUE,  "",  <<Peer("", "hostB")>>),
    CState(FALSE, "",  <<Peer("A", "hostA")>>),
    CState(TRUE,  "B", <<Peer("B", NoAddr), Peer("A", "hostA")>>) }

\* ---------------------------------------------------------------- blocks

REMOTE_BOOTSTRAP_COPYING == "REMOTE_BOOTSTRAP_COPYING"
REMOTE_BOOTSTRAP_DONE == "REMOTE_BOOTSTRAP_DONE"

NoBlock == 0

RowSet(cols, redos, undos, bloom, adhoc) ==
  [columns |-> cols, redo_deltas |-> redos, undo_deltas |-> undos,
   has_bloom_block |-> bloom # NoBlock, bloom_block |-> bloom,
   has_adhoc_index_block |-> adhoc # NoBlock, adhoc_index_block |-> adhoc]

SuperBlock(state, rowsets, orphaned) ==
  [remote_bootstrap_state |-> state, rowsets |-> rowsets, orphaned_blocks |-> orphaned]

\* Block identifiers of the remote's block manager.
RemoteBlockIds == {101, 102, 103, 104, 105, 106, 107, 108, 109}

\* The superblocks a remote may answer a begin request with.
RemoteSuperBlocks ==
  { SuperBlock(REMOTE_BOOTSTRAP_DONE,
               <<RowSet(<<101>>, <<102>>, <<>>, 103, NoBlock)>>, <<109>>),
    SuperBlock(REMOTE_BOOTSTRAP_DONE,
               <<RowSet(<<102>>, <<>>, <<>>, NoBlock, NoBlock),
                 RowSet(<<>>, <<>>, <<101>>, NoBlock, 102)>>, <<>>),
    SuperBlock(REMOTE_BOOTSTRAP_DONE,
               <<RowSet(<<104, 101>>, <<105>>, <<106>>, 107, 108)>>, <<>>),
    SuperBlock(REMOTE_BOOTSTRAP_DONE, <<>>, <<109>>),
    SuperBlock(REMOTE_BOOTSTRAP_COPYING,
               <<RowSet(<<101>>, <<>>, <<>>, NoBlock, NoBlock)>>, <<>>) }

\* The block references of a superblock in the order DownloadBlocks visits
\* them: <<rowset index, field, index within the field>>.
RowSetRefsDeltasSwapped(rs, r) ==
  [i \in 1..Len(rs.columns) |-> <<r, "columns", i>>]
  \o [i \in 1..Len(rs.undo_deltas) |-> <<r, "undo_deltas", i>>]
  \o [i \in 1..Len(rs.redo_deltas) |-> <<r, "redo_deltas", i>>]
  \o (IF rs.has_adhoc_index_block THEN <<<<r, "adhoc_index_block", 0>>>> ELSE <<>>)
  \o (IF rs.has_bloom_block THEN <<<<r, "bloom_block", 0>>>> ELSE <<>>)

RowSetRefs(rs, r) ==
  [i \in 1..Len(rs.columns) |-> <<r, "columns", i>>]
  \o [i \in 1..Len(rs.redo_deltas) |-> <<r, "redo_deltas", i>>]
  \o [i \in 1..Len(rs.undo_deltas) |-> <<r, "undo_deltas", i>>]
  \o (IF rs.has_bloom_block THEN <<<<r, "bloom_block", 0>>>> ELSE <<>>)
  \o (IF rs.has_adhoc_index_block THEN <<<<r, "adhoc_index_block", 0>>>> ELSE <<>>)

RECURSIVE RefsFrom(_, _)
RefsFrom(sb, r) ==
  IF r > Len(sb.rowsets) THEN <<>>
  ELSE RowSetRefs(sb.rowsets[r], r) \o RefsFrom(sb, r + 1)

BlockRefs(sb) == RefsFrom(sb, 1)

GetRef(sb, ref) ==
  IF ref[3] = 0 THEN sb.rowsets[ref[1]][ref[2]]
  ELSE sb.rowsets[ref[1]][ref[2]][ref[3]]

SetRef(sb, ref, id) ==
  IF ref[3] = 0 THEN [sb EXCEPT !.rowsets[ref[1]][ref[2]] = id]
  ELSE [sb EXCEPT !.rowsets[ref[1]][ref[2]][ref[3]] = id]

\* num_blocks as DownloadBlocks counts it.
RECURSIVE CountBlocks(_, _)
CountBlocks(sb, r) ==
  IF r > Len(sb.rowsets) THEN 0
  ELSE LET rs == sb.rowsets[r]
       IN  Len(rs.columns) + Len(rs.redo_deltas) + Len(rs.undo_deltas)
           + (IF rs.has_bloom_block THEN 1 ELSE 0)
           + (IF rs.has_adhoc_index_block THEN 1 ELSE 0)
           + CountBlocks(sb, r + 1)

NumBlocks(sb) == CountBlocks(sb, 1)

\* ------------------------------------------------------------ RPC outcomes
\* What a proxy call leaves behind: its Status and the controller's
\* error_response (with or without the remote bootstrap error extension).

RpcOk == [status |-> OK, has_ext |-> FALSE, ext_code |-> "", ext_status |-> OK]
RpcFailures ==
  { [status |-> StatusOf("TimedOut", <<"call timed out">>),
     has_ext |-> FALSE, ext_code |-> "", ext_status |-> OK],
    [status |-> StatusOf("NetworkError", <<"connection reset">>),
     has_ext |-> FALSE, ext_code |-> "", ext_status |-> OK],
    [status |-> StatusOf("RemoteError", <<"remote error">>),
     has_ext |-> TRUE, ext_code |-> "UNKNOWN_TABLET",
     ext_status |-> StatusOf("NotFound", <<"no such tablet">>)],
    [status |-> StatusOf("RemoteError", <<"remote error">>),
     has_ext |-> FALSE, ext_code |-> "", ext_status |-> OK] }
RpcOutcomes == {RpcOk} \cup RpcFailures

\* (a decoding that takes the extension for granted)
ExtractRemoteErrorUnchecked(remote_error) ==
  CloneAndPrepend(remote_error.ext_status,
                  "Received error code " \o remote_error.ext_code
                    \o " from remote service")

ExtractRemoteError(remote_error) ==
  IF remote_error.has_ext
    THEN CloneAndPrepend(remote_error.ext_status,
                         "Received error code " \o remote_error.ext_code
                           \o " from remote service")
    ELSE StatusOf("InvalidArgument",
                  <<"Unable to decode remote bootstrap RPC error message">>)

\* (a remote error passed on as it came)
UnwindRemoteErrorAsIs(status, controller) == status

UnwindRemoteError(status, controller) ==
  IF status.code # "RemoteError" THEN status
  ELSE CloneAndAppend(status, StatusToString(ExtractRemoteError(controller)))

\* RETURN_NOT_OK_UNWIND_PREPEND
UnwindPrepend(rpc, msg) == CloneAndPrepend(UnwindRemoteError(rpc.status, rpc), msg)

\* ------------------------------------------------------- leader resolution

NoPeer == Peer("", NoAddr)

\* (a search that takes an empty leader uuid for a uuid like any other)
RECURSIVE FindPeer(_, _, _)
FindPeer(peers, uuid, i) ==
  IF i > Len(peers) THEN [found |-> FALSE, leader |-> NoPeer]
  ELSE IF peers[i].permanent_uuid = uuid THEN [found |-> TRUE, leader |-> peers[i]]
  ELSE FindPeer(peers, uuid, i + 1)
ExtractLeaderAnyUuid(cstate) ==
  LET f == FindPeer(cstate.peers, cstate.leader_uuid, 1)
  IN  IF f.found THEN [status |-> OK, leader |-> f.leader]
      ELSE [status |-> StatusOf("NotFound", <<"No leader found in config">>),
            leader |-> NoPeer]

RECURSIVE FindLeader(_, _)
FindLeader(cstate, i) ==
  IF i > Len(cstate.peers) THEN [found |-> FALSE, leader |-> NoPeer]
  ELSE IF ~cstate.has_leader_uuid \/ cstate.leader_uuid = ""
         THEN [found |-> FALSE, leader |-> NoPeer]
  ELSE IF cstate.peers[i].permanent_uuid = cstate.leader_uuid
         THEN [found |-> TRUE, leader |-> cstate.peers[i]]
  ELSE FindLeader(cstate, i + 1)

ExtractLeaderFromConfig(cstate) ==
  LET f == FindLeader(cstate, 1)
  IN  IF f.found THEN [status |-> OK, leader |-> f.leader]
      ELSE [status |-> StatusOf("NotFound", <<"No leader found in config">>),
            leader |-> NoPeer]

\* ---------------------------------------------------------------- chunks

\* (a checksum mismatch reported like an offset mismatch)
VerifyDataOneKind(offset, chunk) ==
  IF offset # chunk.offset \/ Crc32c(chunk.data) # chunk.crc32
    THEN StatusOf("InvalidArgument",
                  <<"Offset did not match what was asked for",
                    ToString(offset) \o " vs " \o ToString(chunk.offset)>>)
  ELSE OK

\* (the checksum verified before the offset)
VerifyDataCrcFirst(offset, chunk) ==
  IF Crc32c(chunk.data) # chunk.crc32
    THEN StatusOf("Corruption",
                  <<"CRC32 does not match at offset " \o ToString(offset)
                      \o " size " \o ToString(Len(chunk.data)),
                    ToString(Crc32c(chunk.data)) \o " vs " \o ToString(chunk.crc32)>>)
  ELSE IF offset # chunk.offset
    THEN StatusOf("InvalidArgument",
                  <<"Offset did not match what was asked for",
                    ToString(offset) \o " vs " \o ToString(chunk.offset)>>)
  ELSE OK

\* (a check of the offset alone)
VerifyDataOffsetOnly(offset, chunk) ==
  IF offset # chunk.offset
    THEN StatusOf("InvalidArgument",
                  <<"Offset did not match what was asked for",
                    ToString(offset) \o " vs " \o ToString(chunk.offset)>>)
  ELSE OK

VerifyData(offset, chunk) ==
  IF offset # chunk.offset
    THEN StatusOf("InvalidArgument",
                  <<"Offset did not match what was asked for",
                    ToString(offset) \o " vs " \o ToString(chunk.offset)>>)
  ELSE IF Crc32c(chunk.data) # chunk.crc32
    THEN StatusOf("Corruption",
                  <<"CRC32 does not match at offset " \o ToString(offset)
                      \o " size " \o ToString(Len(chunk.data)),
                    ToString(Crc32c(chunk.data)) \o " vs " \o ToString(chunk.crc32)>>)
  ELSE OK

\* The chunks a remote may answer with when asked for the bytes of item B
\* from offset o on: a slice of B of any length up to max_length, with a
\* right or wrong total length, or with a skewed offset, a wrong checksum or
\* both.
ChunkTotals(B) == {t \in {Len(B) - 1, Len(B), Len(B) + 1} : t >= 0}
ChunkSlices(B, o) ==
  IF o >= Len(B) THEN {<<>>}
  ELSE {Slice(B, o, n) : n \in 0..Min(MaxLength, Len(B) - o)}
Chunks(B, o) ==
  UNION { { [offset |-> o, data |-> d, total_data_length |-> t, crc32 |-> Crc32c(d)] :
              t \in ChunkTotals(B) }
          \cup
          { [offset |-> off, data |-> d, total_data_length |-> Len(B), crc32 |-> c] :
              off \in {o, o + 1}, c \in {Crc32c(d), Inc32(Crc32c(d))} }
          : d \in ChunkSlices(B, o) }

\* The chunk is a faithful, non-empty piece of B at offset o.
HonestChunk(B, o, chunk) ==
  /\ chunk.offset = o
  /\ Len(chunk.data) > 0
  /\ o + Len(chunk.data) <= Len(B)
  /\ chunk.data = Slice(B, o, Len(chunk.data))
  /\ chunk.total_data_length = Len(B)
  /\ chunk.crc32 = Crc32c(chunk.data)

\* The reply of a remote that serves min(max_length, remaining) bytes of B
\* per request.
FullChunk(B, o, max_length) ==
  LET d == Slice(B, o, Min(max_length, Len(B) - o))
  IN  [offset |-> o, data |-> d, total_data_length |-> Len(B), crc32 |-> Crc32c(d)]

NoChunk == [offset |-> 0, data |-> <<>>, total_data_length |-> 0, crc32 |-> <<0, 0>>]

\* ------------------------------------------------------------------- state

VARIABLES
  pc,       \* where RunRemoteBootstrap stands: "idle" before the call, then the
            \* step it is about to take, "done" on return, "aborted" on a CHECK
  self,     \* the RemoteBootstrapClient object's fields
  meta,     \* the TabletMetadata handed to RunRemoteBootstrap
  fs,       \* local persistent state: WAL directory, blocks, consensus metadata
  run,      \* arguments and locals of the running call
  remote,   \* the remote's side: the session it opened (its begin response),
            \* the item it is serving, and whether every reply of the running
            \* DownloadFile served that item faithfully into a working sink
            \* (honest: in pieces of any positive size; full: in pieces of
            \* min(max_length, remaining) bytes)
  last,     \* the last RPC: request, reply and what the client did with it
  log,      \* the externally visible steps of the call, in order, each with
            \* its outcome so far
  result,   \* the Status RunRemoteBootstrap returned
  before    \* meta, fs and self as they were when RunRemoteBootstrap was called

vars == <<pc, self, meta, fs, run, remote, last, log, result, before>>

kNoSession == "kNoSession"
kSessionStarted == "kSessionStarted"

NullSuperBlock == [null |-> TRUE]
NullCState == [null |-> TRUE]
NoCMeta == [null |-> TRUE]
NoProxy == "NULL"

\* The names a file of the WAL directory can have: the sequence numbers a
\* session may advertise and one name no session advertises.
WalNames == {17, 18, 99}
NoFile == [present |-> FALSE, data |-> <<>>]
File(data) == [present |-> TRUE, data |-> data]
WalFiles(dir) == {n \in WalNames : dir.files[n].present}
NoWalDir == [exists |-> FALSE, files |-> [n \in WalNames |-> NoFile]]
EmptyWalDir == [exists |-> TRUE, files |-> [n \in WalNames |-> NoFile]]

\* What the remote holds under each data id.
WalData(seqno) == IF seqno = 17 THEN <<65, 66>> ELSE <<66>>
BlockData(id) ==
  IF id \in {101, 104, 105, 106, 107, 108} THEN <<>>
  ELSE IF id = 102 THEN <<65>> ELSE <<66, 65>>
WalId(seqno) == [type |-> "LOG_SEGMENT", id |-> seqno]
BlockDataId(id) == [type |-> "BLOCK", id |-> id]
NoDataId == [type |-> "NONE", id |-> 0]
ItemData(data_id) ==
  IF data_id.type = "LOG_SEGMENT" THEN WalData(data_id.id) ELSE BlockData(data_id.id)

\* What a begin request may be answered with.
SessionIds == {"session-1", "session-2"}
WalSeqnoLists == {<<>>, <<18, 17>>, <<17, 17>>}
RemoteCState == [config |-> <<"A", "B", "C">>, current_term |-> 7]
BeginResponses ==
  { [session_id |-> sid, session_idle_timeout_millis |-> 30, superblock |-> sb,
     wal_segment_seqnos |-> seqnos, initial_committed_cstate |-> RemoteCState] :
       sid \in SessionIds, sb \in RemoteSuperBlocks, seqnos \in WalSeqnoLists }

NoResponse ==
  [session_id |-> "", session_idle_timeout_millis |-> 0, superblock |-> NullSuperBlock,
   wal_segment_seqnos |-> <<>>, initial_committed_cstate |-> NullCState]

\* The tablet before the call: one committed block, referenced by the
\* superblock of a tablet that is being copied.
OldSuperBlock ==
  SuperBlock(REMOTE_BOOTSTRAP_COPYING,
             <<RowSet(<<1>>, <<>>, <<>>, NoBlock, NoBlock)>>, <<>>)
OldBlocks == <<[data |-> <<65>>, state |-> "committed", fetched |-> FALSE]>>
OldWalDirs ==
  { NoWalDir,
    [EmptyWalDir EXCEPT !.files[17] = File(<<65>>), !.files[99] = File(<<66>>)] }

NoRun ==
  [cstate |-> NullCState, wal_idx |-> 0, new_sb |-> NullSuperBlock,
   block_count |-> 0, num_blocks |-> 0, data_id |-> NoDataId, block |-> NoBlock,
   offset |-> 0, fetches |-> 0, stalls |-> 0]
NoRpc ==
  [op |-> "none", session_id |-> "", data_id |-> NoDataId, offset |-> 0,
   max_length |-> 0, is_success |-> FALSE, rpc |-> RpcOk, chunk |-> NoChunk,
   outcome |-> "none"]

\* The client as its constructor leaves it.
NewClient ==
  [state_ |-> kNoSession, proxy_ |-> NoProxy, session_id_ |-> "",
   session_idle_timeout_millis_ |-> 0, superblock_ |-> NullSuperBlock,
   wal_seqnos_ |-> <<>>, committed_cstate_ |-> NullCState,
   new_superblock_ |-> NullSuperBlock]

Init ==
  /\ pc = "idle"
  /\ self = NewClient
  /\ meta \in {OldSuperBlock,
               [OldSuperBlock EXCEPT !.remote_bootstrap_state = REMOTE_BOOTSTRAP_DONE]}
  /\ \E dir \in OldWalDirs : fs = [wal_dir |-> dir, blocks |-> OldBlocks, cmeta |-> NoCMeta]
  /\ run = NoRun
  /\ remote = [session |-> NoResponse, item |-> <<>>, honest |-> FALSE, full |-> FALSE]
  /\ last = NoRpc
  /\ log = <<>>
  /\ result = NoStatus
  /\ before = [meta |-> meta, fs |-> fs, self |-> self]

\* ------------------------------------------------------------ the call log

LogStart(op, id, new) == Append(log, [op |-> op, id |-> id, new |-> new, st |-> "running"])
LogEnd(l, st) == IF l = <<>> THEN l ELSE [l EXCEPT ![Len(l)].st = st]
LogStep(op, id, new, st) == Append(log, [op |-> op, id |-> id, new |-> new, st |-> st])
StepSt(status) == IF IsOk(status) THEN "ok" ELSE "failed"

\* The statements of RunRemoteBootstrap in program order; each runs only
\* when the one before it returned OK (RETURN_NOT_OK).
RunSequenceBlocksFirst == <<"begin", "blocks", "wals", "cmeta", "replace", "end", "done">>
RunSequenceSwapFirst == <<"begin", "wals", "blocks", "replace", "cmeta", "end", "done">>
RunSequenceEndBeforeSwap == <<"begin", "wals", "blocks", "cmeta", "end", "replace", "done">>
RunSequenceEndAfterDownloads == <<"begin", "wals", "blocks", "end", "cmeta", "replace", "done">>
RunSequence == <<"begin", "wals", "blocks", "cmeta", "replace", "end", "done">>
RECURSIVE IndexOf(_, _, _)
IndexOf(seq, x, i) == IF seq[i] = x THEN i ELSE IndexOf(seq, x, i + 1)
After(stmt) == RunSequence[IndexOf(RunSequence, stmt, 1) + 1]

\* ------------------------------------------------ BeginRemoteBootstrapSession

IOError(what) == StatusOf("IOError", <<what>>)

\* (a begin that takes whatever superblock the remote answers with)
BeginOutcomeAnySuperBlock(cstate, resolve_ok, rpc, resp) ==
  LET l == ExtractLeaderFromConfig(cstate)
      none(st) == [status |-> st, proxy |-> NoProxy, sent |-> FALSE, started |-> FALSE]
  IN  IF ~IsOk(l.status)
        THEN none(CloneAndPrepend(l.status,
               "Cannot find leader tablet in config to remotely bootstrap from"))
      ELSE IF ~l.leader.has_last_known_addr
        THEN none(StatusOf("InvalidArgument", <<"Unknown address for config leader">>))
      ELSE IF ~resolve_ok
        THEN none(StatusOf("NetworkError", <<"Unable to resolve address">>))
      ELSE IF ~IsOk(rpc.status)
        THEN [status |-> UnwindPrepend(rpc, "Unable to begin remote bootstrap session"),
              proxy |-> l.leader.last_known_addr, sent |-> TRUE, started |-> FALSE]
      ELSE [status |-> OK, proxy |-> l.leader.last_known_addr,
            sent |-> TRUE, started |-> TRUE]

\* The outcome of BeginRemoteBootstrapSession: the Status it returns, the
\* address the proxy was built for (NoProxy when none was), whether the RPC
\* was sent and whether the response was stored and the session started.
BeginOutcome(cstate, resolve_ok, rpc, resp) ==
  LET l == ExtractLeaderFromConfig(cstate)
      none(st) == [status |-> st, proxy |-> NoProxy, sent |-> FALSE, started |-> FALSE]
  IN  IF ~IsOk(l.status)
        THEN none(CloneAndPrepend(l.status,
               "Cannot find leader tablet in config to remotely bootstrap from"))
      ELSE IF ~l.leader.has_last_known_addr
        THEN none(StatusOf("InvalidArgument", <<"Unknown address for config leader">>))
      ELSE IF ~resolve_ok
        THEN none(StatusOf("NetworkError", <<"Unable to resolve address">>))
      ELSE IF ~IsOk(rpc.status)
        THEN [status |-> UnwindPrepend(rpc, "Unable to begin remote bootstrap session"),
              proxy |-> l.leader.last_known_addr, sent |-> TRUE, started |-> FALSE]
      ELSE IF resp.superblock.remote_bootstrap_state # REMOTE_BOOTSTRAP_DONE
        THEN [status |-> StatusOf("IllegalState",
                <<"Leader of config is currently remotely bootstrapping itself!">>),
              proxy |-> l.leader.last_known_addr, sent |-> TRUE, started |-> FALSE]
      ELSE [status |-> OK, proxy |-> l.leader.last_known_addr,
            sent |-> TRUE, started |-> TRUE]

\* CHECK_EQ(kNoSession, state_)
BeginPreconditionSkipped == TRUE
\* (a client that takes a new session once its downloads are through)
BeginPreconditionUntilDownloaded ==
  self.state_ = kNoSession \/ self.new_superblock_ # NullSuperBlock
BeginPrecondition == self.state_ = kNoSession

\* RunRemoteBootstrap up to the return of BeginRemoteBootstrapSession, on
\* a new client or on one whose earlier call has returned.
RunRemoteBootstrap ==
  /\ pc \in {"idle", "done"}
  /\ \/ /\ ~(meta.remote_bootstrap_state = REMOTE_BOOTSTRAP_COPYING
               /\ BeginPrecondition)
        /\ pc' = "aborted"
        /\ UNCHANGED <<self, meta, fs, run, remote, last, log, result, before>>
     \/ /\ meta.remote_bootstrap_state = REMOTE_BOOTSTRAP_COPYING
        /\ BeginPrecondition
        /\ \E cstate \in CStates, resolve_ok \in BOOLEAN, rpc \in RpcOutcomes :
           \E resp \in IF IsOk(rpc.status) THEN BeginResponses ELSE {NoResponse} :
             LET out == BeginOutcome(cstate, resolve_ok, rpc, resp)
             IN  /\ self' = IF out.started
                              THEN [self EXCEPT
                                      !.proxy_ = out.proxy,
                                      !.session_id_ = resp.session_id,
                                      !.session_idle_timeout_millis_ =
                                          resp.session_idle_timeout_millis,
                                      !.superblock_ = resp.superblock,
                                      !.wal_seqnos_ = resp.wal_segment_seqnos,
                                      !.committed_cstate_ = resp.initial_committed_cstate,
                                      !.state_ = kSessionStarted]
                            ELSE IF out.proxy # NoProxy
                              THEN [self EXCEPT !.proxy_ = out.proxy]
                            ELSE self
                 /\ run' = [NoRun EXCEPT !.cstate = cstate]
                 /\ last' = IF out.sent
                              THEN [NoRpc EXCEPT !.op = "BeginRemoteBootstrapSession",
                                                 !.rpc = rpc,
                                                 !.outcome = StepSt(out.status)]
                            ELSE NoRpc
                 /\ log' = IF out.sent
                             THEN <<[op |-> "BeginRemoteBootstrapSession", id |-> 0,
                                     new |-> 0, st |-> StepSt(out.status)]>>
                           ELSE <<>>
                 /\ before' = [meta |-> meta, fs |-> fs, self |-> self]
                 /\ IF IsOk(out.status)
                      THEN pc' = After("begin") /\ result' = NoStatus
                      ELSE pc' = "done" /\ result' = out.status
                 /\ remote' = [remote EXCEPT !.session =
                                 IF out.sent /\ IsOk(rpc.status) THEN resp ELSE NoResponse]
                 /\ UNCHANGED <<meta, fs>>

\* ---------------------------------------------------------------- DownloadWALs

\* (a CreateDir that is content with the directory that is there)
RecreateWalDirKeepFiles(dir, del_ok, kept, create_ok, sync_ok) ==
  IF ~dir.exists /\ ~create_ok THEN [status |-> IOError("CreateDir"), dir |-> NoWalDir]
  ELSE IF ~sync_ok
    THEN [status |-> IOError("SyncDir"), dir |-> [dir EXCEPT !.exists = TRUE]]
  ELSE [status |-> OK, dir |-> [dir EXCEPT !.exists = TRUE]]

\* DeleteRecursively, CreateDir and SyncDir of the tablet's WAL directory.
RecreateWalDir(dir, del_ok, kept, create_ok, sync_ok) ==
  IF dir.exists /\ ~del_ok
    THEN [status |-> IOError("DeleteRecursively"),
          dir |-> [dir EXCEPT !.files =
                     [n \in WalNames |-> IF n \in kept THEN dir.files[n] ELSE NoFile]]]
  ELSE IF ~create_ok THEN [status |-> IOError("CreateDir"), dir |-> NoWalDir]
  ELSE IF ~sync_ok THEN [status |-> IOError("SyncDir"), dir |-> EmptyWalDir]
  ELSE [status |-> OK, dir |-> EmptyWalDir]

DownloadWALs ==
  /\ pc = "wals"
  /\ IF self.state_ # kSessionStarted
       THEN pc' = "aborted" /\ UNCHANGED <<self, meta, fs, run, remote, last, log, result, before>>
       ELSE \E del_ok \in BOOLEAN, create_ok \in BOOLEAN, sync_ok \in BOOLEAN,
               kept \in SUBSET WalFiles(fs.wal_dir) :
              LET out == RecreateWalDir(fs.wal_dir, del_ok, kept, create_ok, sync_ok)
              IN  /\ fs' = [fs EXCEPT !.wal_dir = out.dir]
                  /\ IF ~IsOk(out.status)
                       THEN pc' = "done" /\ result' = out.status /\ run' = run
                     ELSE IF self.wal_seqnos_ = <<>>
                       THEN pc' = After("wals") /\ result' = result /\ run' = run
                     ELSE /\ pc' = "wal_open"
                          /\ result' = result
                          /\ run' = [run EXCEPT !.wal_idx = 1]
                  /\ UNCHANGED <<self, meta, remote, last, log, before>>

\* DownloadWAL up to the first FetchData: the segment file is created (or
\* truncated) under the name of its sequence number.
DownloadWAL ==
  /\ pc = "wal_open"
  /\ \E open_ok \in BOOLEAN :
       LET seqno == self.wal_seqnos_[run.wal_idx]
       IN  IF ~open_ok
             THEN /\ pc' = "done"
                  /\ result' = CloneAndPrepend(IOError("NewWritableFile"),
                                               "Unable to open file for writing")
                  /\ log' = LogStep("DownloadWAL", seqno, 0, "failed")
                  /\ UNCHANGED <<self, meta, fs, run, remote, last, before>>
             ELSE /\ pc' = "fetch"
                  /\ fs' = [fs EXCEPT !.wal_dir.files[seqno] = File(<<>>)]
                  /\ run' = [run EXCEPT !.data_id = WalId(seqno), !.block = NoBlock,
                                        !.offset = 0, !.fetches = 0, !.stalls = 0]
                  /\ remote' = [remote EXCEPT !.item = ItemData(WalId(seqno)),
                                              !.honest = TRUE, !.full = TRUE]
                  /\ log' = LogStart("DownloadWAL", seqno, 0)
                  /\ UNCHANGED <<self, meta, last, result, before>>

\* ---------------------------------------------------------------- DownloadFile

\* The sink of the running DownloadFile: the open WAL segment file or the
\* open block.
SinkData(f, r) ==
  IF r.data_id.type = "LOG_SEGMENT" THEN f.wal_dir.files[r.data_id.id].data
  ELSE f.blocks[r.block].data

AppendToSink(f, r, data) ==
  IF r.data_id.type = "LOG_SEGMENT"
    THEN [f EXCEPT !.wal_dir.files[r.data_id.id].data = @ \o data]
    ELSE [f EXCEPT !.blocks[r.block].data = @ \o data]

\* (a loop that takes a chunk shorter than max_length for the last one)
DownloadFileStepShortChunkEnds(offset, rpc, chunk, append_ok) ==
  LET v == VerifyData(offset, chunk)
      stop(st, what) == [status |-> st, outcome |-> what, appended |-> FALSE,
                         done |-> FALSE, offset |-> offset]
  IN  IF ~IsOk(rpc.status)
        THEN stop(UnwindPrepend(rpc, "Unable to fetch data from remote"), "rpc_failed")
      ELSE IF ~IsOk(v)
        THEN stop(CloneAndPrepend(v, "Error validating data item"), "verify_failed")
      ELSE IF ~append_ok
        THEN stop(IOError("Append"), "append_failed")
      ELSE [status |-> OK, outcome |-> "appended", appended |-> TRUE,
            done |-> \/ Len(chunk.data) < MaxLength
                     \/ offset + Len(chunk.data) = chunk.total_data_length,
            offset |-> offset + Len(chunk.data)]

\* (a loop that ends at the reply that has nothing left to send)
DownloadFileStepTrailingFetch(offset, rpc, chunk, append_ok) ==
  LET v == VerifyData(offset, chunk)
      stop(st, what) == [status |-> st, outcome |-> what, appended |-> FALSE,
                         done |-> FALSE, offset |-> offset]
  IN  IF ~IsOk(rpc.status)
        THEN stop(UnwindPrepend(rpc, "Unable to fetch data from remote"), "rpc_failed")
      ELSE IF ~IsOk(v)
        THEN stop(CloneAndPrepend(v, "Error validating data item"), "verify_failed")
      ELSE IF ~append_ok
        THEN stop(IOError("Append"), "append_failed")
      ELSE [status |-> OK, outcome |-> "appended", appended |-> TRUE,
            done |-> /\ Len(chunk.data) = 0
                     /\ offset = chunk.total_data_length,
            offset |-> offset + Len(chunk.data)]

\* (a loop that ends as soon as the declared total is reached or passed)
DownloadFileStepAtLeastTotal(offset, rpc, chunk, append_ok) ==
  LET v == VerifyData(offset, chunk)
      stop(st, what) == [status |-> st, outcome |-> what, appended |-> FALSE,
                         done |-> FALSE, offset |-> offset]
  IN  IF ~IsOk(rpc.status)
        THEN stop(UnwindPrepend(rpc, "Unable to fetch data from remote"), "rpc_failed")
      ELSE IF ~IsOk(v)
        THEN stop(CloneAndPrepend(v, "Error validating data item"), "verify_failed")
      ELSE IF ~append_ok
        THEN stop(IOError("Append"), "append_failed")
      ELSE [status |-> OK, outcome |-> "appended", appended |-> TRUE,
            done |-> (offset + Len(chunk.data) >= chunk.total_data_length),
            offset |-> offset + Len(chunk.data)]

\* (a loop that goes on after a chunk without data)
DownloadFileStepEmptyGoesOn(offset, rpc, chunk, append_ok) ==
  LET v == VerifyData(offset, chunk)
      stop(st, what) == [status |-> st, outcome |-> what, appended |-> FALSE,
                         done |-> FALSE, offset |-> offset]
  IN  IF ~IsOk(rpc.status)
        THEN stop(UnwindPrepend(rpc, "Unable to fetch data from remote"), "rpc_failed")
      ELSE IF ~IsOk(v)
        THEN stop(CloneAndPrepend(v, "Error validating data item"), "verify_failed")
      ELSE IF ~append_ok
        THEN stop(IOError("Append"), "append_failed")
      ELSE [status |-> OK, outcome |-> "appended", appended |-> TRUE,
            done |-> /\ Len(chunk.data) > 0
                     /\ offset + Len(chunk.data) = chunk.total_data_length,
            offset |-> offset + Len(chunk.data)]

\* One iteration of DownloadFile's loop at `offset`, given the outcome of
\* the FetchData RPC and of the sink's Append: the Status (OK to go on),
\* whether the chunk's data was appended, whether the loop is done, and the
\* next offset.
DownloadFileStep(offset, rpc, chunk, append_ok) ==
  LET v == VerifyData(offset, chunk)
      stop(st, what) == [status |-> st, outcome |-> what, appended |-> FALSE,
                         done |-> FALSE, offset |-> offset]
  IN  IF ~IsOk(rpc.status)
        THEN stop(UnwindPrepend(rpc, "Unable to fetch data from remote"), "rpc_failed")
      ELSE IF ~IsOk(v)
        THEN stop(CloneAndPrepend(v, "Error validating data item"), "verify_failed")
      ELSE IF ~append_ok
        THEN stop(IOError("Append"), "append_failed")
      ELSE [status |-> OK, outcome |-> "appended", appended |-> TRUE,
            done |-> (offset + Len(chunk.data) = chunk.total_data_length),
            offset |-> offset + Len(chunk.data)]

\* What becomes of a WritableBlock when DownloadBlock lets go of it: made
\* durable when the download succeeded, abandoned otherwise.
ReleaseBlock(blk, ok) ==
  [blk EXCEPT !.state = IF ok THEN "committed" ELSE "abandoned", !.fetched = ok]

\* (a DownloadBlocks that works on superblock_ itself)
PublishSuperBlockInPlace(s, new_sb) ==
  [s EXCEPT !.superblock_ = [new_sb EXCEPT !.orphaned_blocks = <<>>],
            !.new_superblock_ = [new_sb EXCEPT !.orphaned_blocks = <<>>]]

\* The end of DownloadBlocks: the working copy loses the remote's orphaned
\* blocks and becomes new_superblock_.
PublishSuperBlock(s, new_sb) ==
  [s EXCEPT !.new_superblock_ = [new_sb EXCEPT !.orphaned_blocks = <<>>]]

\* (a rewrite that leaves the remote's identifier in place)
RewriteBlockKeepRemoteId(new_sb, ref, new_block_id) == new_sb

\* DownloadAndRewriteBlock after DownloadBlock returned OK.
RewriteBlock(new_sb, ref, new_block_id) == SetRef(new_sb, ref, new_block_id)

\* The messages DownloadWAL / DownloadBlock and DownloadAndRewriteBlock put
\* in front of a failed DownloadFile's Status.
DownloadFailure(data_id, status) ==
  IF data_id.type = "LOG_SEGMENT"
    THEN CloneAndPrepend(status, "Unable to download WAL segment with seq. number "
                                   \o ToString(data_id.id))
    ELSE CloneAndPrepend(
           CloneAndPrepend(status, "Unable to download block " \o ToString(data_id.id)),
           "Unable to download block with id " \o ToString(data_id.id))

FetchRequest ==
  [NoRpc EXCEPT !.op = "FetchData", !.session_id = self.session_id_,
                !.data_id = run.data_id, !.offset = run.offset,
                !.max_length = MaxLength]

\* One FetchData round trip of DownloadFile and what follows it without a
\* further call to a collaborator: the return to DownloadWALs or
\* DownloadBlocks and the loop bookkeeping there.
FetchData ==
  /\ pc = "fetch"
  /\ \E rpc \in RpcOutcomes :
     \E chunk \in IF IsOk(rpc.status) THEN Chunks(remote.item, run.offset) ELSE {NoChunk} :
     \E append_ok \in IF IsOk(rpc.status) /\ IsOk(VerifyData(run.offset, chunk))
                        THEN BOOLEAN ELSE {TRUE} :
       LET step == DownloadFileStep(run.offset, rpc, chunk, append_ok)
           isWal == run.data_id.type = "LOG_SEGMENT"
           fs1 == IF step.appended THEN AppendToSink(fs, run, chunk.data) ELSE fs
           leaving == ~IsOk(step.status) \/ step.done
           fs2 == IF leaving /\ ~isWal
                    THEN [fs1 EXCEPT !.blocks[run.block] =
                                        ReleaseBlock(@, IsOk(step.status))]
                    ELSE fs1
           refs == BlockRefs(run.new_sb)
       IN  /\ (IsOk(step.status) /\ ~step.done /\ step.offset > run.offset) =>
                run.fetches + 1 < MaxFetches
           /\ last' = [FetchRequest EXCEPT
                         !.rpc = rpc,
                         !.chunk = chunk,
                         !.outcome = step.outcome]
           /\ fs' = fs2
           /\ IF ~IsOk(step.status)
                THEN /\ pc' = "done"
                     /\ result' = DownloadFailure(run.data_id, step.status)
                     /\ log' = LogEnd(log, "failed")
                     /\ run' = [run EXCEPT !.fetches = @ + 1]
                     /\ self' = self
              ELSE IF ~step.done
                THEN /\ pc' = "fetch"
                     /\ run' = IF step.offset > run.offset
                                  THEN [run EXCEPT !.offset = step.offset,
                                                   !.fetches = @ + 1, !.stalls = 0]
                                  ELSE [run EXCEPT !.stalls = 1 - @]
                     /\ UNCHANGED <<self, log, result>>
              ELSE IF isWal
                THEN /\ log' = LogEnd(log, "ok")
                     /\ run' = [run EXCEPT !.offset = step.offset, !.fetches = @ + 1,
                                           !.wal_idx = @ + 1]
                     /\ pc' = IF run.wal_idx < Len(self.wal_seqnos_)
                                THEN "wal_open" ELSE After("wals")
                     /\ UNCHANGED <<self, result>>
              ELSE LET sb == RewriteBlock(run.new_sb, refs[run.block_count + 1], run.block)
                   IN  /\ log' = LogEnd(log, "ok")
                       /\ run' = [run EXCEPT !.offset = step.offset, !.fetches = @ + 1,
                                             !.new_sb = sb, !.block_count = @ + 1]
                       /\ IF run.block_count + 1 < Len(refs)
                            THEN pc' = "block_create" /\ self' = self
                            ELSE pc' = After("blocks") /\ self' = PublishSuperBlock(self, sb)
                       /\ result' = result
           /\ remote' = [remote EXCEPT !.honest =
                           /\ @
                           /\ IsOk(rpc.status)
                           /\ append_ok
                           /\ HonestChunk(remote.item, run.offset, chunk),
                                       !.full =
                           /\ @
                           /\ IsOk(rpc.status)
                           /\ append_ok
                           /\ chunk = FullChunk(remote.item, run.offset, MaxLength)]
           /\ UNCHANGED <<meta, before>>

\* ---------------------------------------------------------------- DownloadBlocks

\* DownloadBlocks up to the first block: the blocks are counted and the
\* remote superblock is copied into the working copy.
DownloadBlocks ==
  /\ pc = "blocks"
  /\ IF self.state_ # kSessionStarted
       THEN pc' = "aborted" /\ UNCHANGED <<self, run>>
       ELSE LET new_sb == self.superblock_
            IN  /\ run' = [run EXCEPT !.new_sb = new_sb, !.block_count = 0,
                                      !.num_blocks = NumBlocks(self.superblock_)]
                /\ IF BlockRefs(new_sb) = <<>>
                     THEN pc' = After("blocks") /\ self' = PublishSuperBlock(self, new_sb)
                     ELSE pc' = "block_create" /\ self' = self
  /\ UNCHANGED <<meta, fs, remote, last, log, result, before>>

\* DownloadAndRewriteBlock / DownloadBlock up to the first FetchData: the
\* block manager creates a block under an identifier of its own.
DownloadBlock ==
  /\ pc = "block_create"
  /\ \E create_ok \in BOOLEAN :
       LET old_block_id == GetRef(run.new_sb, BlockRefs(run.new_sb)[run.block_count + 1])
           new_block_id == Len(fs.blocks) + 1
       IN  IF ~create_ok
             THEN /\ pc' = "done"
                  /\ result' = CloneAndPrepend(
                                 CloneAndPrepend(IOError("CreateNewBlock"),
                                                 "Unable to create new block"),
                                 "Unable to download block with id "
                                   \o ToString(old_block_id))
                  /\ log' = LogStep("DownloadBlock", old_block_id, 0, "failed")
                  /\ UNCHANGED <<self, meta, fs, run, remote, last, before>>
             ELSE /\ pc' = "fetch"
                  /\ fs' = [fs EXCEPT !.blocks =
                              Append(@, [data |-> <<>>, state |-> "open", fetched |-> FALSE])]
                  /\ run' = [run EXCEPT !.data_id = BlockDataId(old_block_id),
                                        !.block = new_block_id,
                                        !.offset = 0, !.fetches = 0, !.stalls = 0]
                  /\ remote' = [remote EXCEPT !.item = ItemData(BlockDataId(old_block_id)),
                                              !.honest = TRUE, !.full = TRUE]
                  /\ log' = LogStart("DownloadBlock", old_block_id, new_block_id)
                  /\ UNCHANGED <<self, meta, last, result, before>>

\* ------------------------------------------------- the last three statements

WriteConsensusMetadata ==
  /\ pc = "cmeta"
  /\ \E create_ok \in BOOLEAN :
       IF create_ok
         THEN /\ fs' = [fs EXCEPT !.cmeta = [config |-> self.committed_cstate_.config,
                                             term |-> self.committed_cstate_.current_term]]
              /\ log' = LogStep("WriteConsensusMetadata", 0, 0, "ok")
              /\ pc' = After("cmeta")
              /\ result' = result
         ELSE /\ fs' = fs
              /\ log' = LogStep("WriteConsensusMetadata", 0, 0, "failed")
              /\ pc' = "done"
              /\ result' = IOError("ConsensusMetadata::Create")
  /\ UNCHANGED <<self, meta, run, remote, last, before>>

ReplaceSuperBlock ==
  /\ pc = "replace"
  /\ \E replace_ok \in BOOLEAN :
       IF replace_ok
         THEN /\ meta' = self.new_superblock_
              /\ log' = LogStep("ReplaceSuperBlock", 0, 0, "ok")
              /\ pc' = After("replace")
              /\ result' = result
         ELSE /\ meta' = meta
              /\ log' = LogStep("ReplaceSuperBlock", 0, 0, "failed")
              /\ pc' = "done"
              /\ result' = IOError("ReplaceSuperBlock")
  /\ UNCHANGED <<self, fs, run, remote, last, before>>

EndRequestStaleSession ==
  [NoRpc EXCEPT !.op = "EndRemoteBootstrapSession",
                !.session_id = "", !.is_success = TRUE]
EndRequest ==
  [NoRpc EXCEPT !.op = "EndRemoteBootstrapSession",
                !.session_id = self.session_id_, !.is_success = TRUE]

EndRemoteBootstrapSession ==
  /\ pc = "end"
  /\ IF self.state_ # kSessionStarted
       THEN pc' = "aborted" /\ UNCHANGED <<last, log, result>>
       ELSE \E rpc \in RpcOutcomes :
              LET status == UnwindPrepend(rpc, "Failure ending remote bootstrap session")
              IN  /\ last' = [EndRequest EXCEPT !.rpc = rpc, !.outcome = StepSt(status)]
                  /\ log' = LogStep("EndRemoteBootstrapSession", 0, 0, StepSt(status))
                  /\ pc' = After("end")
                  /\ result' = status
  /\ UNCHANGED <<self, meta, fs, run, remote, before>>

\* DownloadWALs, DownloadBlocks or EndRemoteBootstrapSession entered on a
\* new client by a caller other than RunRemoteBootstrap.
DirectCall ==
  /\ pc = "idle"
  /\ pc' \in {"wals", "blocks", "end"}
  /\ UNCHANGED <<self, meta, fs, run, remote, last, log, result, before>>

Next ==
  \/ RunRemoteBootstrap
  \/ DirectCall
  \/ DownloadWALs
  \/ DownloadWAL
  \/ FetchData
  \/ DownloadBlocks
  \/ DownloadBlock
  \/ WriteConsensusMetadata
  \/ ReplaceSuperBlock
  \/ EndRemoteBootstrapSession

Spec == Init /\ [][Next]_vars

\* ------------------------------------------------- DownloadFile on its own
\* DownloadFile right after DownloadWAL opened the file of segment 17, in a
\* session whose remote holds any byte string under that data id.

MaxItem == 4
Items == SeqsUpTo(Bytes, MaxItem)

FetchSession ==
  [session_id |-> "session-1", session_idle_timeout_millis |-> 30,
   superblock |-> SuperBlock(REMOTE_BOOTSTRAP_DONE, <<>>, <<>>),
   wal_segment_seqnos |-> <<17>>, initial_committed_cstate |-> RemoteCState]

InitFetch ==
  /\ pc = "fetch"
  /\ self = [state_ |-> kSessionStarted, proxy_ |-> "hostA",
             session_id_ |-> FetchSession.session_id,
             session_idle_timeout_millis_ |-> FetchSession.session_idle_timeout_millis,
             superblock_ |-> FetchSession.superblock,
             wal_seqnos_ |-> FetchSession.wal_segment_seqnos,
             committed_cstate_ |-> FetchSession.initial_committed_cstate,
             new_superblock_ |-> NullSuperBlock]
  /\ meta = OldSuperBlock
  /\ fs = [wal_dir |-> [EmptyWalDir EXCEPT !.files[17] = File(<<>>)],
           blocks |-> OldBlocks, cmeta |-> NoCMeta]
  /\ run = [NoRun EXCEPT !.cstate = CState(TRUE, "A", <<Peer("B", "hostB"), Peer("A", "hostA")>>),
                         !.wal_idx = 1, !.data_id = WalId(17)]
  /\ \E B \in Items : remote = [session |-> FetchSession, item |-> B, honest |-> TRUE, full |-> TRUE]
  /\ last = [NoRpc EXCEPT !.op = "BeginRemoteBootstrapSession", !.outcome = "ok"]
  /\ log = <<[op |-> "BeginRemoteBootstrapSession", id |-> 0, new |-> 0, st |-> "ok"],
             [op |-> "DownloadWAL", id |-> 17, new |-> 0, st |-> "running"]>>
  /\ result = NoStatus
  /\ before = [meta |-> OldSuperBlock,
               fs |-> [wal_dir |-> NoWalDir, blocks |-> OldBlocks, cmeta |-> NoCMeta],
               self |-> NewClient]

NextFetch == FetchData

SpecFetch == InitFetch /\ [][NextFetch]_vars

\* The thread that runs DownloadFile keeps running: an iteration of the
\* loop that can be taken is taken.
SpecFetchFair == InitFetch /\ [][NextFetch]_vars /\ WF_vars(NextFetch)

\* ================================================================== claims

Steps(op) == SelectSeq(log, LAMBDA e : e.op = op)
Did(op) == \E i \in 1..Len(log) : log[i].op = op /\ log[i].st = "ok"
Tried(op) == \E i \in 1..Len(log) : log[i].op = op
Returned == pc = "done"
ReturnedOk == pc = "done" /\ IsOk(result)
ReturnedError == pc = "done" /\ ~IsOk(result)

StepRank(op) ==
  CASE op = "BeginRemoteBootstrapSession" -> 1
    [] op = "DownloadWAL" -> 2
    [] op = "DownloadBlock" -> 3
    [] op = "WriteConsensusMetadata" -> 4
    [] op = "ReplaceSuperBlock" -> 5
    [] op = "EndRemoteBootstrapSession" -> 6

\* The remote block identifiers of a superblock in traversal order.
RemoteIds(sb) == [k \in 1..Len(BlockRefs(sb)) |-> GetRef(sb, BlockRefs(sb)[k])]

\* C1: the steps of a call happen in the order begin RPC, WAL segment
\* fetches (in the order of the advertised sequence numbers), block fetches,
\* consensus metadata write, ReplaceSuperBlock, end RPC; a step starts only
\* when every earlier step returned OK and every step of the earlier phases
\* has been taken; FetchData is only ever sent for the step in progress.
C1_StepsInOrder ==
  LET wals == Steps("DownloadWAL")
      blks == Steps("DownloadBlock")
      seqnos == remote.session.wal_segment_seqnos
      ids == RemoteIds(remote.session.superblock)
  IN  /\ \A i \in 1..Len(log) - 1 :
           /\ log[i].st = "ok"
           /\ StepRank(log[i].op) <= StepRank(log[i + 1].op)
           /\ StepRank(log[i].op) \notin {2, 3} => StepRank(log[i].op) < StepRank(log[i + 1].op)
      /\ log # <<>> => log[1].op = "BeginRemoteBootstrapSession"
      /\ wals # <<>> =>
           /\ Len(wals) <= Len(seqnos)
           /\ \A i \in 1..Len(wals) : wals[i].id = seqnos[i]
      /\ blks # <<>> =>
           /\ Len(wals) = Len(seqnos)
           /\ Len(blks) <= Len(ids)
           /\ \A i \in 1..Len(blks) : blks[i].id = ids[i]
      /\ Tried("WriteConsensusMetadata") =>
           /\ Did("BeginRemoteBootstrapSession")
           /\ Len(wals) = Len(seqnos)
           /\ Len(blks) = Len(ids)
      /\ Tried("ReplaceSuperBlock") => Did("WriteConsensusMetadata")
      /\ Tried("EndRemoteBootstrapSession") => Did("ReplaceSuperBlock")
      /\ pc = "fetch" =>
           /\ log[Len(log)].st = "running"
           /\ log[Len(log)].op = IF run.data_id.type = "LOG_SEGMENT"
                                   THEN "DownloadWAL" ELSE "DownloadBlock"
           /\ log[Len(log)].id = run.data_id.id
      /\ last.op = "FetchData" =>
           \E i \in 1..Len(log) :
             /\ log[i].op = IF last.data_id.type = "LOG_SEGMENT"
                              THEN "DownloadWAL" ELSE "DownloadBlock"
             /\ log[i].id = last.data_id.id

\* A call that took every step, with two WAL segments and three blocks.
C1_Witness ==
  /\ ReturnedOk
  /\ Len(Steps("DownloadWAL")) = 2
  /\ Len(Steps("DownloadBlock")) = 3
  /\ Len(log) = 9

\* C2: a call that failed at a step before ReplaceSuperBlock never called
\* ReplaceSuperBlock and left the tablet metadata as it was, in
\* REMOTE_BOOTSTRAP_COPYING.
C2_FailureBeforeSwapKeepsMeta ==
  (ReturnedError /\ (log = <<>> \/ StepRank(log[Len(log)].op) < 5)) =>
    /\ ~Tried("ReplaceSuperBlock")
    /\ meta = before.meta
    /\ meta.remote_bootstrap_state = REMOTE_BOOTSTRAP_COPYING

\* A call that failed at the consensus metadata write, after every download.
C2_Witness ==
  /\ ReturnedError
  /\ log # <<>>
  /\ log[Len(log)].op = "WriteConsensusMetadata"
  /\ Len(Steps("DownloadBlock")) = 3
  /\ meta = before.meta

\* C3: a call that returned OK sent exactly one EndRemoteBootstrapSession,
\* after ReplaceSuperBlock succeeded, with the session id the remote gave in
\* its begin response and is_success = true.
C3_OneEndAfterSwap ==
  ReturnedOk =>
    /\ Len(Steps("EndRemoteBootstrapSession")) = 1
    /\ log[Len(log)].op = "EndRemoteBootstrapSession"
    /\ log[Len(log) - 1].op = "ReplaceSuperBlock"
    /\ log[Len(log) - 1].st = "ok"
    /\ last.op = "EndRemoteBootstrapSession"
    /\ last.session_id = remote.session.session_id
    /\ last.is_success = TRUE

C3_Witness ==
  /\ ReturnedOk
  /\ last.op = "EndRemoteBootstrapSession"
  /\ last.session_id = "session-2"
  /\ meta.remote_bootstrap_state = REMOTE_BOOTSTRAP_DONE

\* The consensus metadata record a completed bootstrap leaves.
NewCMeta ==
  [config |-> remote.session.initial_committed_cstate.config,
   term |-> remote.session.initial_committed_cstate.current_term]

\* The blocks that were there before the call are as they were.
OldBlocksKept ==
  /\ Len(fs.blocks) >= Len(before.fs.blocks)
  /\ SubSeq(fs.blocks, 1, Len(before.fs.blocks)) = before.fs.blocks

\* The sequence numbers the session advertised, as a set.
Advertised ==
  {remote.session.wal_segment_seqnos[i] : i \in 1..Len(remote.session.wal_segment_seqnos)}

\* Every block reference of superblock sb names a committed local block.
RefsCommitted(sb) ==
  \A k \in 1..Len(BlockRefs(sb)) :
    LET id == GetRef(sb, BlockRefs(sb)[k])
    IN  id \in 1..Len(fs.blocks) /\ fs.blocks[id].state = "committed"

\* C4: when RunRemoteBootstrap returns, the local persistent state (WAL
\* directory, the blocks the tablet references, consensus metadata record,
\* superblock) is either entirely what it was before the call or entirely
\* the new state of a completed bootstrap.
C4_PriorOrNewState ==
  Returned =>
    \/ /\ meta = before.meta
       /\ fs.wal_dir = before.fs.wal_dir
       /\ fs.cmeta = before.fs.cmeta
       /\ OldBlocksKept
    \/ /\ Did("ReplaceSuperBlock")
       /\ meta = self.new_superblock_
       /\ meta.remote_bootstrap_state = REMOTE_BOOTSTRAP_DONE
       /\ RefsCommitted(meta)
       /\ fs.wal_dir.exists
       /\ WalFiles(fs.wal_dir) = Advertised
       /\ fs.cmeta = NewCMeta

\* A call that returned an error with the old superblock still installed,
\* the WAL directory emptied of the files it held and the consensus metadata
\* record rewritten.
C4_Witness ==
  /\ ReturnedError
  /\ meta = before.meta
  /\ WalFiles(before.fs.wal_dir) # {}
  /\ WalFiles(fs.wal_dir) \cap WalFiles(before.fs.wal_dir) = {}
  /\ fs.cmeta = NewCMeta
  /\ before.fs.cmeta = NoCMeta

C6_WalDirIsAdvertised ==
  ReturnedOk =>
    /\ fs.wal_dir.exists
    /\ WalFiles(fs.wal_dir) = Advertised
    /\ \A n \in WalFiles(fs.wal_dir) :
         \E i \in 1..Len(log) :
           log[i].op = "DownloadWAL" /\ log[i].id = n /\ log[i].st = "ok"

\* A successful call on a WAL directory that held a stray file 99 and an old
\* segment 17, in a session that advertised 18 and 17.
C6_Witness ==
  /\ ReturnedOk
  /\ WalFiles(before.fs.wal_dir) = {17, 99}
  /\ remote.session.wal_segment_seqnos = <<18, 17>>
  /\ WalFiles(fs.wal_dir) = {17, 18}
  /\ fs.wal_dir.files[17].data # before.fs.wal_dir.files[17].data

\* C7: a FetchData step of DownloadFile either leaves the sink as it was or
\* appends the chunk's data to it, and it appends only a chunk whose offset
\* is the number of bytes appended so far in this DownloadFile (the offset
\* of the request) and whose crc32 is the CRC-32C of its data.
C7_AcceptedChunks ==
  [][ pc = "fetch" =>
        LET sink == SinkData(fs, run)
            sink2 == SinkData(fs', run)
            chunk == last'.chunk
            good == /\ chunk.offset = Len(sink)
                    /\ chunk.offset = last'.offset
                    /\ Crc32c(chunk.data) = chunk.crc32
        IN  /\ last'.op = "FetchData"
            /\ last'.offset = run.offset
            /\ run.offset = Len(sink)
            /\ \/ sink2 = sink /\ last'.outcome # "appended"
               \/ sink2 = sink \o chunk.data /\ last'.outcome = "appended" /\ good
            /\ ~good => sink2 = sink
    ]_vars

\* A second chunk was appended at offset 1, after a first one of one byte.
C7_Witness ==
  /\ last.op = "FetchData"
  /\ last.outcome = "appended"
  /\ last.offset = 1
  /\ Len(last.chunk.data) = 1
  /\ run.data_id.type = "BLOCK"
  /\ Len(fs.blocks[run.block].data) = 2

\* C8: when every reply of a DownloadFile was a non-empty piece of item B
\* at the offset asked for, with the right CRC and total_data_length = |B|,
\* and the sink took every Append, the sink holds the first `offset` bytes
\* of B while the loop runs, and once the loop is left DownloadFile has
\* returned OK and the sink holds B.
C8_RoundTrip ==
  (remote.honest /\ run.fetches > 0) =>
    LET B == remote.item
        sink == SinkData(fs, run)
    IN  /\ sink = Slice(B, 0, run.offset)
        /\ pc = "fetch" => run.offset < Len(B)
        /\ pc # "fetch" =>
             /\ pc # "done"
             /\ log[Len(log)].op = "DownloadWAL"
             /\ log[Len(log)].st = "ok"
             /\ run.offset = Len(B)
             /\ sink = B

\* An item of three bytes came in three chunks of one byte.
C8_Witness ==
  /\ remote.honest
  /\ pc # "fetch"
  /\ run.fetches = 3
  /\ Len(remote.item) = 3
  /\ SinkData(fs, run) = remote.item

\* The peers of a snapshot that carry its leader uuid.
Matching(cstate) ==
  {i \in 1..Len(cstate.peers) : cstate.peers[i].permanent_uuid = cstate.leader_uuid}
NoLeader(cstate) ==
  \/ ~cstate.has_leader_uuid
  \/ cstate.leader_uuid = ""
  \/ Matching(cstate) = {}
FirstMatching(cstate) ==
  cstate.peers[CHOOSE i \in Matching(cstate) : \A j \in Matching(cstate) : i <= j]
NoNetwork ==
  /\ self.proxy_ = before.self.proxy_
  /\ last = NoRpc
  /\ log = <<>>
  /\ self.state_ = kNoSession
  /\ remote.session = NoResponse

\* C9: when the begin RPC succeeded with a superblock that is not in
\* REMOTE_BOOTSTRAP_DONE, the call has returned IllegalState, state_ is
\* kNoSession, nothing of the response has been stored, no file or block
\* was written, and no FetchData or EndRemoteBootstrapSession was sent.
C9_LeaderMidBootstrap ==
  (remote.session # NoResponse
     /\ remote.session.superblock.remote_bootstrap_state # REMOTE_BOOTSTRAP_DONE) =>
    /\ pc = "done"
    /\ result.code = "IllegalState"
    /\ self.state_ = kNoSession
    /\ self.session_id_ = ""
    /\ self.session_idle_timeout_millis_ = 0
    /\ self.superblock_ = NullSuperBlock
    /\ self.wal_seqnos_ = <<>>
    /\ self.committed_cstate_ = NullCState
    /\ fs = before.fs
    /\ meta = before.meta
    /\ last.op = "BeginRemoteBootstrapSession"
    /\ Len(log) = 1
    /\ log[1].op = "BeginRemoteBootstrapSession"
    /\ log[1].st = "failed"

\* The begin RPC was answered with a superblock in REMOTE_BOOTSTRAP_COPYING
\* on a tablet whose WAL directory held files.
C9_Witness ==
  /\ pc = "done"
  /\ remote.session # NoResponse
  /\ remote.session.superblock.remote_bootstrap_state = REMOTE_BOOTSTRAP_COPYING
  /\ remote.session.wal_segment_seqnos # <<>>
  /\ WalFiles(fs.wal_dir) = {17, 99}
  /\ result.code = "IllegalState"

\* C10: a call whose snapshot has no leader uuid, an empty one, or one no
\* peer carries has returned NotFound ("No leader found in config"); a call
\* whose (first) peer with the leader's uuid has no last-known address has
\* returned InvalidArgument; in both cases no proxy was created, no RPC was
\* sent and state_ is kNoSession.
C10_LeaderResolution ==
  (pc # "idle" /\ pc # "aborted" /\ run.cstate # NullCState) =>
    /\ NoLeader(run.cstate) =>
         /\ pc = "done"
         /\ result.code = "NotFound"
         /\ result.msg[Len(result.msg)] = "No leader found in config"
         /\ NoNetwork
    /\ (~NoLeader(run.cstate) /\ ~FirstMatching(run.cstate).has_last_known_addr) =>
         /\ pc = "done"
         /\ result.code = "InvalidArgument"
         /\ NoNetwork

\* A call with an empty leader uuid that a peer's uuid equals.
C10_Witness ==
  /\ pc = "done"
  /\ run.cstate # NullCState
  /\ run.cstate.has_leader_uuid
  /\ run.cstate.leader_uuid = ""
  /\ Matching(run.cstate) # {}
  /\ result.code = "NotFound"

\* The call is over: it returned or it aborted the process.
Over == pc \in {"done", "aborted"}

\* The message each RPC's failure is prefixed with.
Context(op) ==
  CASE op = "BeginRemoteBootstrapSession" -> "Unable to begin remote bootstrap session"
    [] op = "FetchData" -> "Unable to fetch data from remote"
    [] op = "EndRemoteBootstrapSession" -> "Failure ending remote bootstrap session"

\* The last RPC failed, with this kind.
RpcFailed == ~IsOk(last.rpc.status)
LastRemoteError == last.rpc.status.code = "RemoteError"

\* What follows the context message in the Status the call returned:
\* the set is empty when the message is not there (or, for begin and end,
\* not in front).
AfterContext ==
  {SubSeq(result.msg, i + 1, Len(result.msg)) :
     i \in {j \in 1..Len(result.msg) :
              /\ result.msg[j] = Context(last.op)
              /\ last.op # "FetchData" => j = 1}}

\* The decoded remote bootstrap error as it reads in a message.
Decoded ==
  <<last.rpc.ext_status.code,
    "Received error code " \o last.rpc.ext_code \o " from remote service">>
    \o last.rpc.ext_status.msg

\* C11: an RPC that failed with RemoteError and the remote bootstrap error
\* extension gives the call a Status of the same kind whose message is the
\* context message, the RPC's message and the decoded "Received error code
\* <Code> from remote service: <message>"; a failure of any other kind
\* gives the context message and the RPC's message, nothing appended.
C11_RemoteErrorUnwound ==
  (RpcFailed /\ (LastRemoteError => last.rpc.has_ext)) =>
    /\ Over
    /\ result.code = last.rpc.status.code
    /\ AfterContext =
         {last.rpc.status.msg \o (IF LastRemoteError THEN Decoded ELSE <<>>)}

\* A FetchData for a block failed with RemoteError, UNKNOWN_TABLET,
\* "no such tablet".
C11_Witness ==
  /\ pc = "done"
  /\ last.op = "FetchData"
  /\ last.data_id.type = "BLOCK"
  /\ LastRemoteError
  /\ last.rpc.has_ext
  /\ result.msg[Len(result.msg)] = "no such tablet"
  /\ result.msg[Len(result.msg) - 1] = "Received error code UNKNOWN_TABLET from remote service"

\* C12 (as amended): an RPC that failed with RemoteError without the
\* remote bootstrap error extension gives the call a Status that is still
\* of kind RemoteError; the InvalidArgument "Unable to decode remote
\* bootstrap RPC error message" is text appended to its message.
C12_UndecodedStaysRemoteError ==
  (RpcFailed /\ LastRemoteError /\ ~last.rpc.has_ext) =>
    /\ Over
    /\ result.code = "RemoteError"
    /\ AfterContext =
         {last.rpc.status.msg
            \o <<"InvalidArgument", "Unable to decode remote bootstrap RPC error message">>}

\* C12 (as stated): such a failure gives the call a Status of kind
\* InvalidArgument.
C12_UndecodedIsInvalidArgument ==
  (RpcFailed /\ LastRemoteError /\ ~last.rpc.has_ext) =>
    /\ Over
    /\ result.code = "InvalidArgument"

\* The begin RPC failed with RemoteError and no extension.
C12_Witness ==
  /\ pc = "done"
  /\ last.op = "BeginRemoteBootstrapSession"
  /\ LastRemoteError
  /\ ~last.rpc.has_ext
  /\ result.code = "RemoteError"

\* The last FetchData was answered, for a block, and the call is over.
BlockReply ==
  /\ last.op = "FetchData"
  /\ IsOk(last.rpc.status)
  /\ last.data_id.type = "BLOCK"
Reply == last.op = "FetchData" /\ IsOk(last.rpc.status)
LastPart(k) == result.msg[Len(result.msg) - k]

C14_OffsetMismatch ==
  (Reply /\ last.chunk.offset # last.offset) =>
    /\ Over
    /\ result.code = "InvalidArgument"
    /\ LastPart(1) = "Offset did not match what was asked for"
    /\ LastPart(0) = ToString(last.offset) \o " vs " \o ToString(last.chunk.offset)
    /\ last.outcome = "verify_failed"
    /\ Len(SinkData(fs, run)) = last.offset
    /\ log[Len(log)].st = "failed"
    /\ log[Len(log)].id = last.data_id.id

\* A WAL segment's second FetchData, at offset 1, was answered with offset 2
\* and a wrong checksum.
C14_Witness ==
  /\ pc = "done"
  /\ Reply
  /\ last.data_id.type = "LOG_SEGMENT"
  /\ last.offset = 1
  /\ last.chunk.offset = 2
  /\ last.chunk.crc32 # Crc32c(last.chunk.data)
  /\ result.code = "InvalidArgument"

\* C15 (as stated): once EndRemoteBootstrapSession has succeeded, state_ is
\* no longer kSessionStarted, the phase in which the fetch operations run.
C15_EndLeavesStarted ==
  (Over /\ Did("EndRemoteBootstrapSession")) => self.state_ # kSessionStarted

\* C16: when ReplaceSuperBlock succeeded and the end RPC failed, the call
\* returned that error, prefixed "Failure ending remote bootstrap session",
\* and the tablet keeps the new superblock in REMOTE_BOOTSTRAP_DONE with
\* the WAL segments, blocks and consensus metadata of the bootstrap.
C16_EndFailureKeepsSwap ==
  (last.op = "EndRemoteBootstrapSession" /\ RpcFailed) =>
    /\ Over
    /\ ~IsOk(result)
    /\ result.code = last.rpc.status.code
    /\ result.msg[1] = "Failure ending remote bootstrap session"
    /\ Did("ReplaceSuperBlock")
    /\ meta = self.new_superblock_
    /\ meta # before.meta
    /\ meta.remote_bootstrap_state = REMOTE_BOOTSTRAP_DONE
    /\ RefsCommitted(meta)
    /\ WalFiles(fs.wal_dir) = Advertised
    /\ fs.cmeta = NewCMeta

\* The end RPC timed out after a bootstrap with three blocks.
C16_Witness ==
  /\ pc = "done"
  /\ last.op = "EndRemoteBootstrapSession"
  /\ result.code = "TimedOut"
  /\ Len(Steps("DownloadBlock")) = 3
  /\ meta.remote_bootstrap_state = REMOTE_BOOTSTRAP_DONE

\* C17: a call that failed at a step up to and including ReplaceSuperBlock
\* sent no EndRemoteBootstrapSession, and a call sends it only after
\* ReplaceSuperBlock returned OK.
C17_NoEndOnFailure ==
  /\ (Over /\ ~IsOk(result) /\ result # NoStatus
        /\ (log = <<>> \/ log[Len(log)].op # "EndRemoteBootstrapSession")) =>
       /\ ~Tried("EndRemoteBootstrapSession")
       /\ last.op # "EndRemoteBootstrapSession"
  /\ (Tried("EndRemoteBootstrapSession") \/ last.op = "EndRemoteBootstrapSession") =>
       Did("ReplaceSuperBlock")

\* A call that opened a session and failed at ReplaceSuperBlock.
C17_Witness ==
  /\ pc = "done"
  /\ ~IsOk(result)
  /\ log # <<>>
  /\ log[Len(log)].op = "ReplaceSuperBlock"
  /\ self.state_ = kSessionStarted
  /\ remote.session # NoResponse
  /\ last.op = "FetchData"

\* C20 (as stated): a chunk appended to the sink at offset O has
\* O + len(chunk.data) <= chunk.total_data_length.
C20_ChunkWithinTotal ==
  (last.op = "FetchData" /\ last.outcome = "appended") =>
    last.offset + Len(last.chunk.data) <= last.chunk.total_data_length

\* A chunk of two bytes was appended at offset 0 of an item declared one
\* byte long, and the loop went on.
C20_Witness ==
  /\ pc = "fetch"
  /\ last.op = "FetchData"
  /\ last.outcome = "appended"
  /\ last.offset = 0
  /\ Len(last.chunk.data) = 2
  /\ last.chunk.total_data_length = 1
  /\ Len(SinkData(fs, run)) = 2

\* The last reply was a valid chunk of no data short of the declared end:
\* it was accepted and left the sink and the offset where they were.
Stalled ==
  /\ pc = "fetch"
  /\ last.op = "FetchData"
  /\ last.outcome = "appended"
  /\ Len(last.chunk.data) = 0
  /\ last.offset < last.chunk.total_data_length
  /\ run.offset = last.offset
  /\ Len(SinkData(fs, run)) = last.offset

\* C19 (as stated): DownloadFile does not loop forever; against a remote
\* that keeps answering with valid chunks of no data short of the end of
\* the item it ends (by TimedOut).
C19_StalledFetchEnds == <>(pc # "fetch")

\* Two replies in a row carried no data at offset 1 of an item of three
\* bytes, and the same offset is about to be requested a third time.
C19_Witness ==
  /\ Stalled
  /\ run.offset = 1
  /\ run.stalls = 0
  /\ run.fetches = 1
  /\ Len(remote.item) = 3

\* The operation about to run is called with its precondition violated.
RunViolated ==
  /\ pc \in {"idle", "done"}
  /\ ~(meta.remote_bootstrap_state = REMOTE_BOOTSTRAP_COPYING /\ self.state_ = kNoSession)
PhaseViolated ==
  /\ pc \in {"wals", "blocks", "end"}
  /\ self.state_ # kSessionStarted
AllButPc == <<self, meta, fs, run, remote, last, log, result, before>>

\* C18: RunRemoteBootstrap called on metadata that is not in
\* REMOTE_BOOTSTRAP_COPYING, or on a client whose state_ is not kNoSession
\* (where BeginRemoteBootstrapSession's check fails), and DownloadWALs,
\* DownloadBlocks or EndRemoteBootstrapSession called with state_ other
\* than kSessionStarted abort the process: no Status is returned and no
\* RPC, fetch or file-system change precedes the abort; nothing else aborts.
C18_AbortBeforeEffects ==
  [][ /\ RunViolated =>
           /\ UNCHANGED AllButPc
           /\ pc' = "aborted" \/ (pc = "idle" /\ pc' \in {"wals", "blocks", "end"})
      /\ PhaseViolated => (UNCHANGED AllButPc /\ pc' = "aborted")
      /\ pc' = "aborted" => (RunViolated \/ PhaseViolated)
    ]_vars

\* RunRemoteBootstrap was called again on a client whose first call had
\* opened a session and failed during the block downloads, and aborted.
C18_Witness ==
  /\ pc = "aborted"
  /\ self.state_ = kSessionStarted
  /\ meta.remote_bootstrap_state = REMOTE_BOOTSTRAP_COPYING
  /\ Tried("DownloadBlock")
  /\ ~IsOk(result)
  /\ last.op = "FetchData"

\* The one valid reply for an item without data.
EmptyItemChunk ==
  [offset |-> 0, data |-> <<>>, total_data_length |-> 0, crc32 |-> Crc32c(<<>>)]

\* DownloadFile was left by returning OK to DownloadWAL.
FetchReturnedOk ==
  /\ pc \notin {"fetch", "done", "aborted"}
  /\ log # <<>>
  /\ log[Len(log)].op = "DownloadWAL"
  /\ log[Len(log)].st = "ok"

\* C21: when the item is empty and the first FetchData of DownloadFile
\* (offset 0) is answered with a chunk of no data, offset 0, the CRC of no
\* data and total_data_length = 0, and the sink takes the Append of it,
\* DownloadFile returns OK at that reply, its only RPC, and the sink holds
\* no bytes.
C21_EmptyItem ==
  [][ ( /\ pc = "fetch"
        /\ last.op # "FetchData"
        /\ remote.item = <<>>
        /\ IsOk(last'.rpc.status)
        /\ last'.chunk = EmptyItemChunk
        /\ last'.outcome # "append_failed" ) =>
      ( /\ last'.op = "FetchData"
        /\ last'.offset = 0
        /\ last'.outcome = "appended"
        /\ FetchReturnedOk'
        /\ run'.fetches = 1
        /\ SinkData(fs', run') = <<>> )
    ]_vars

\* DownloadFile has returned OK for an empty item at its first reply.
C21_Witness ==
  /\ FetchReturnedOk
  /\ remote.item = <<>>
  /\ last.op = "FetchData"
  /\ last.chunk = EmptyItemChunk
  /\ run.fetches = 1
  /\ run.stalls = 0
  /\ SinkData(fs, run) = <<>>

\* C22: against a remote that answers every request with min(max_length,
\* remaining) bytes of item B (and a sink that takes them), every FetchData
\* is counted, the (n+1)-th one asks for offset n * max_length, and
\* DownloadFile returns OK at the first reply that reaches |B|: an item of
\* k * max_length bytes takes exactly k RPCs at offsets 0, max_length, ...,
\* (k-1) * max_length with none after the last full chunk, and an item of
\* at most max_length bytes takes exactly one.
C22_RpcCount ==
  [][ (pc = "fetch" /\ remote'.full) =>
        LET B == remote.item
            n == run.fetches
        IN  /\ remote.full
            /\ last'.op = "FetchData"
            /\ last'.offset = n * MaxLength
            /\ last'.max_length = MaxLength
            /\ last'.chunk = FullChunk(B, n * MaxLength, MaxLength)
            /\ run'.fetches = n + 1
            /\ IF (n + 1) * MaxLength >= Len(B)
                 THEN FetchReturnedOk' /\ SinkData(fs', run') = B
                 ELSE pc' = "fetch" /\ run'.offset = (n + 1) * MaxLength
    ]_vars

\* An item of 2 * max_length bytes was fetched in two RPCs, the second at
\* offset max_length.
C22_Witness ==
  /\ FetchReturnedOk
  /\ remote.full
  /\ Len(remote.item) = 2 * MaxLength
  /\ run.fetches = 2
  /\ last.op = "FetchData"
  /\ last.offset = MaxLength
  /\ Len(last.chunk.data) = MaxLength
  /\ SinkData(fs, run) = remote.item

\* The block identifiers of a superblock, written out in the order the
\* claim gives: rowset by rowset; columns, redo deltas, undo deltas, bloom
\* block, ad-hoc index block.
RECURSIVE BlocksInOrder(_, _)
BlocksInOrder(rowsets, r) ==
  IF r > Len(rowsets) THEN <<>>
  ELSE LET rs == rowsets[r]
       IN  rs.columns \o rs.redo_deltas \o rs.undo_deltas
           \o (IF rs.has_bloom_block THEN <<rs.bloom_block>> ELSE <<>>)
           \o (IF rs.has_adhoc_index_block THEN <<rs.adhoc_index_block>> ELSE <<>>)
           \o BlocksInOrder(rowsets, r + 1)

\* C23: the blocks DownloadBlocks has asked for so far are, in order, the
\* first ones of the remote superblock's references taken rowset by rowset,
\* within a rowset columns, redo deltas, undo deltas, bloom block, ad-hoc
\* index block; every one before the last was fetched, a failed one is the
\* last step of the call; num_blocks is the number of references, and when
\* DownloadBlocks has succeeded every reference was fetched exactly once
\* and block_count = num_blocks.
C23_BlockTraversal ==
  run.new_sb # NullSuperBlock =>
    LET ids == BlocksInOrder(self.superblock_.rowsets, 1)
        blks == Steps("DownloadBlock")
    IN  /\ run.num_blocks = Len(ids)
        /\ Len(blks) <= Len(ids)
        /\ \A k \in 1..Len(blks) :
             /\ blks[k].id = ids[k]
             /\ k < Len(blks) => blks[k].st = "ok"
             /\ blks[k].st = "failed" => Over /\ log[Len(log)] = blks[k]
        /\ run.block_count = Cardinality({k \in 1..Len(blks) : blks[k].st = "ok"})
        /\ self.new_superblock_ # NullSuperBlock =>
             /\ Len(blks) = Len(ids)
             /\ run.block_count = run.num_blocks

\* DownloadBlocks has succeeded on a rowset with two columns, a redo delta,
\* an undo delta, a bloom block and an ad-hoc index block.
C23_Witness ==
  /\ self.new_superblock_ # NullSuperBlock
  /\ run.num_blocks = 6
  /\ run.block_count = 6
  /\ [k \in 1..6 |-> Steps("DownloadBlock")[k].id] = <<104, 101, 105, 106, 107, 108>>

\* Some block download of the call has failed.
BlockFailed == \E k \in 1..Len(log) : log[k].op = "DownloadBlock" /\ log[k].st = "failed"

\* C24: superblock_ stays the superblock received at session begin through
\* DownloadBlocks and after it; the rewritten identifiers and the emptied
\* orphaned_blocks are in the working copy only, which becomes
\* new_superblock_ when every block has been fetched; while blocks are
\* still being fetched, and after a block download has failed,
\* new_superblock_ is unset and the tablet's superblock is the one from
\* before the call.
C24_WorkingCopy ==
  self.state_ = kSessionStarted =>
    LET blks == Steps("DownloadBlock")
    IN  /\ self.superblock_ = remote.session.superblock
        /\ self.new_superblock_ # NullSuperBlock =>
             /\ self.new_superblock_ = [run.new_sb EXCEPT !.orphaned_blocks = <<>>]
             /\ Len(blks) = NumBlocks(self.superblock_)
             /\ \A k \in 1..Len(blks) : blks[k].st = "ok"
        /\ (pc \in {"wals", "wal_open", "blocks", "block_create", "fetch"} \/ BlockFailed) =>
             /\ self.new_superblock_ = NullSuperBlock
             /\ meta = before.meta

\* A block download failed after an earlier block had been rewritten in the
\* working copy, which differs from the remote superblock.
C24_Witness ==
  /\ Over
  /\ BlockFailed
  /\ run.block_count = 1
  /\ run.new_sb # NullSuperBlock
  /\ run.new_sb # self.superblock_
  /\ self.superblock_ = remote.session.superblock
  /\ self.new_superblock_ = NullSuperBlock

\* The last begin request of the client was refused or never sent.
BeginFailed == pc = "done" /\ ~Did("BeginRemoteBootstrapSession")

\* C25: once state_ is kSessionStarted it is kSessionStarted after every
\* step (failed downloads, a failed swap, a successful or failed end), and
\* a RunRemoteBootstrap called again on that client aborts and changes
\* nothing; state_ becomes kSessionStarted only by a begin that succeeded;
\* after a call whose begin failed state_ is kNoSession, and a
\* RunRemoteBootstrap called again on that client is taken up: it does not
\* abort and starts from the client as the failed call left it.
C25_PhaseNeverReturns ==
  [][ /\ self.state_ = kSessionStarted =>
           /\ self'.state_ = kSessionStarted
           /\ pc \in {"idle", "done"} => (pc' = "aborted" /\ UNCHANGED AllButPc)
      /\ (self.state_ = kNoSession /\ self'.state_ = kSessionStarted) =>
           /\ pc \in {"idle", "done"}
           /\ last'.op = "BeginRemoteBootstrapSession"
           /\ IsOk(last'.rpc.status)
           /\ log' = <<[op |-> "BeginRemoteBootstrapSession", id |-> 0, new |-> 0,
                        st |-> "ok"]>>
      /\ BeginFailed =>
           /\ self.state_ = kNoSession
           /\ pc' # "aborted"
           /\ before'.self = self
    ]_vars

\* A second RunRemoteBootstrap was called on a client whose first call had
\* opened a session, swapped nothing and failed at ReplaceSuperBlock; it
\* aborted.
C25_Witness ==
  /\ pc = "aborted"
  /\ self.state_ = kSessionStarted
  /\ log # <<>>
  /\ log[Len(log)].op = "ReplaceSuperBlock"
  /\ log[Len(log)].st = "failed"
  /\ meta.remote_bootstrap_state = REMOTE_BOOTSTRAP_COPYING

\* A second RunRemoteBootstrap on a client whose first call had failed in
\* begin, after the proxy was made, was taken up and opened a session.
C25_WitnessAdmitted ==
  /\ self.state_ = kSessionStarted
  /\ before.self.state_ = kNoSession
  /\ before.self.proxy_ # NoProxy
  /\ Did("BeginRemoteBootstrapSession")

\* C26: DownloadFile returns OK only at a reply whose chunk was appended
\* and makes the bytes appended so far equal to that chunk's
\* total_data_length, and it returns OK at every such reply; after an
\* appended chunk that misses the equality (its data passes its declared
\* total, or its total is below what was already appended, or more is to
\* come) the loop goes on at the offset advanced by the chunk's length.
C26_ExactCompletion ==
  [][ pc = "fetch" =>
        LET chunk == last'.chunk
            reached == run.offset + Len(chunk.data)
            appended == last'.outcome = "appended"
        IN  /\ last'.offset = run.offset
            /\ FetchReturnedOk' =>
                 /\ appended
                 /\ reached = chunk.total_data_length
                 /\ Len(SinkData(fs', run')) = chunk.total_data_length
            /\ (appended /\ reached = chunk.total_data_length) => FetchReturnedOk'
            /\ (appended /\ reached # chunk.total_data_length) =>
                 /\ pc' = "fetch"
                 /\ run'.offset = reached
                 /\ Len(SinkData(fs', run')) = reached
    ]_vars

\* DownloadFile returned OK at an empty chunk that declared the two bytes
\* already appended as the total, after those bytes had come in one chunk
\* that declared another total.
C26_Witness ==
  /\ FetchReturnedOk
  /\ last.op = "FetchData"
  /\ last.chunk.data = <<>>
  /\ last.offset = Len(remote.item)
  /\ last.offset = 2
  /\ last.chunk.total_data_length = 2
  /\ run.fetches = 2
  /\ ~remote.honest

\* The loop went on after a chunk whose data passed its declared total.
C26_WitnessOvershoot ==
  /\ pc = "fetch"
  /\ last.op = "FetchData"
  /\ last.outcome = "appended"
  /\ last.offset + Len(last.chunk.data) > last.chunk.total_data_length
  /\ run.offset = last.offset + Len(last.chunk.data)
  /\ Len(SinkData(fs, run)) = run.offset
  /\ last.offset = 1

====
